---- MODULE Spec2Model ----
(***************************************************************************)
(* The PropsOS client (src/props_os/core/client.py) and its command line   *)
(* (src/props_os/cli/main.py), as state machines over their collaborators: *)
(* the embedding provider, the GraphQL backend, the env file and the       *)
(* subprocesses the CLI runs.                                              *)
(*                                                                         *)
(*   Spec          one recall call                                         *)
(*   SpecClient    constructing a client, one get_agent call               *)
(*   SpecRemember  one remember call                                       *)
(*   SpecSetup     setup_openai_key on an env file                         *)
(*   SpecCli       agent register, agent unregister, memory recall         *)
(*   SpecUp        the up command (SpecUpFair: every subprocess returns)   *)
(*   SpecCreate    the create command                                      *)
(*                                                                         *)
(* Similarity thresholds and scores are counted in hundredths (0.7 is 70). *)
(* An optional argument is a set: {} when the caller omits it (None) and   *)
(* {v} when the caller passes v.                                           *)
(***************************************************************************)
EXTENDS Integers, Sequences, FiniteSets, TLC

VARIABLES pc, call, query_embedding, embedLog, searchLog, completionLog,
          responses, result, error

\* The construction of a client and one get_agent call.
VARIABLES environ, client, agentPc, agentCall, agentPosts, agentBody,
          agentResult, agentError

\* One remember call.
VARIABLES rememberPc, rememberCall, rememberEmbedLog, rememberPosts,
          rememberResult, rememberError

\* The env file, the process environment and one setup_openai_key call.
VARIABLES envFile, cliEnviron, setupPc, setupBefore, setupEntered, setupResult

\* One run of a CLI command.
VARIABLES cliPc, cliCommand, cliClient, cliCalls, cliEmbeds, cliPosts,
          cliOutput, cliRaised, cliExit

\* One run of the up command.
VARIABLES upPc, upFiles, upLog, upAttempts, upLastProbe, upReady, upOutput,
          upExit

\* One run of the create command.
VARIABLES createPc, createName, createFs, createBefore, createPrompted,
          createOutput, createExit

recallVars == <<pc, call, query_embedding, embedLog, searchLog, completionLog,
                responses, result, error>>
clientVars == <<environ, client, agentPc, agentCall, agentPosts, agentBody,
                agentResult, agentError>>
rememberVars == <<rememberPc, rememberCall, rememberEmbedLog, rememberPosts,
                  rememberResult, rememberError>>
setupVars == <<envFile, cliEnviron, setupPc, setupBefore, setupEntered,
               setupResult>>
setupCallVars == <<setupPc, setupBefore, setupEntered, setupResult>>
cliVars == <<cliPc, cliCommand, cliClient, cliCalls, cliEmbeds, cliPosts,
             cliOutput, cliRaised, cliExit>>
upVars == <<upPc, upFiles, upLog, upAttempts, upLastProbe, upReady, upOutput,
            upExit>>
createVars == <<createPc, createName, createFs, createBefore, createPrompted,
                createOutput, createExit>>
nonRecallVars == <<clientVars, rememberVars, setupVars, cliVars, upVars, createVars>>
nonClientVars == <<recallVars, rememberVars, setupVars, cliVars, upVars, createVars>>
nonRememberVars == <<recallVars, clientVars, setupVars, cliVars, upVars, createVars>>
nonSetupVars == <<recallVars, clientVars, rememberVars, cliVars, upVars, createVars>>
nonCliVars == <<recallVars, clientVars, rememberVars, setupCallVars, upVars, createVars>>
nonUpVars == <<recallVars, clientVars, rememberVars, setupCallVars, cliVars, createVars>>
nonCreateVars == <<recallVars, clientVars, rememberVars, setupCallVars, envFile,
                   cliVars, upVars>>
vars == <<recallVars, clientVars, rememberVars, setupVars, cliVars, upVars, createVars>>

(***************************************************************************)
(* Bounds of the model.                                                    *)
(***************************************************************************)
MaxResp == 3      \* most rows in one backend response
MaxLimit == 2     \* largest limit a caller passes
MaxFileLen == 4   \* most tokens in the env file before setup_openai_key
MaxFilters == 2   \* most --filter options on one command line

(***************************************************************************)
(* Inputs.                                                                 *)
(***************************************************************************)
Optional(S) == {{}} \cup {{x} : x \in S}

Queries == {"test query", "programming language"}
AgentIds == Optional({"agent-1"})
\* The defaults of recall's limit and threshold parameters.
DefaultLimit == 5
DefaultThreshold == 70

Limits == (1..MaxLimit) \cup {DefaultLimit}
Thresholds == {DefaultThreshold, 100}

EmptyDict == [k \in {} |-> {}]
Scalar(v) == [scalar |-> v]
Operator(op, v) == [op |-> op, value |-> v]
FilterArgs ==
    { EmptyDict,
      [k \in {"type"} |-> Scalar("note")],
      [k \in {"agent_id"} |-> Scalar("agent-2")],
      [k \in {"confidence"} |-> Operator("_gt", "0.8")] }

\* Keyword arguments of the documented contract that recall's signature
\* does not declare.
ExtraKwargs ==
    [min_results : Optional({0, 1, 3}),
     adaptive_threshold : Optional(BOOLEAN),
     use_semantic_expansion : Optional(BOOLEAN)]
NoKwargs ==
    [min_results |-> {}, adaptive_threshold |-> {}, use_semantic_expansion |-> {}]

Calls ==
    [query : Queries, agent_id : AgentIds, limit : Limits,
     threshold : Thresholds, filters : FilterArgs, kwargs : ExtraKwargs]
NoCall ==
    [query |-> "", agent_id |-> {}, limit |-> 0, threshold |-> 0,
     filters |-> EmptyDict, kwargs |-> NoKwargs]

\* Rows the search backend can answer with: any rows, in any order, any
\* number of them up to MaxResp.
Row(id, similarity) == [id |-> id, content |-> "Test memory content", similarity |-> similarity]
Rows == {Row(id, s) : id \in {"1", "2"}, s \in {60, 85}}
SeqsUpTo(S, n) == UNION {[1..k -> S] : k \in 0..n}
Responses == SeqsUpTo(Rows, MaxResp)

(***************************************************************************)
(* Helpers of the client.                                                  *)
(***************************************************************************)
\* The signature of recall: query, agent_id, limit, threshold, filters.
\* Python raises TypeError for any other keyword.
AcceptsKwargs(kwargs) == kwargs = NoKwargs

\* Variant of EmbeddedText: the embedding is computed after the name `query`
\* has been rebound to the GraphQL text.
EmbeddedTextAfterRebinding(c) == "query SearchMemories"

\* The text recall hands to _get_embedding.
EmbeddedText(c) == c.query

\* _get_embedding: the request sent to the embedding provider, and the
\* vector response.data[0].embedding the provider answers it with.
EmbeddingRequest(text) == [model |-> "text-embedding-3-small", input |-> text]
EmbeddingOf(text) == <<"embedding", text>>

\* Python truthiness of an optional string.
Truthy(opt) == opt # {} /\ opt # {""}

Eq(v) == Operator("_eq", v)
IsDict(value) == "op" \in DOMAIN value
TheOne(opt) == CHOOSE x \in opt : TRUE

\* Variant of WhereClause: `elif filters:` for `if filters:`, the filters
\* are left out when an agent_id is given.
WhereClauseElif(agent_id, filters) ==
    IF Truthy(agent_id)
        THEN [k \in {"agent_id"} |-> Eq(TheOne(agent_id))]
        ELSE [k \in DOMAIN filters |->
                IF IsDict(filters[k]) THEN filters[k] ELSE Eq(filters[k].scalar)]

\* The where clause: agent_id first, then every filter key assigned over it.
WhereClause(agent_id, filters) ==
    LET base == IF Truthy(agent_id) THEN {"agent_id"} ELSE {}
    IN  [k \in base \cup DOMAIN filters |->
            IF k \in DOMAIN filters
                THEN IF IsDict(filters[k]) THEN filters[k] ELSE Eq(filters[k].scalar)
                ELSE Eq(TheOne(agent_id))]

\* The threshold recall puts in the search variables.
SearchThreshold(c) == c.threshold

\* Variant of SearchVariables: the limit sent is the default, not the caller's.
SearchVariablesDefaultLimit(embedding, c) ==
    [embedding |-> embedding,
     limit |-> DefaultLimit,
     threshold |-> SearchThreshold(c),
     where |-> WhereClause(c.agent_id, c.filters)]

SearchVariables(embedding, c) ==
    [embedding |-> embedding,
     limit |-> c.limit,
     threshold |-> SearchThreshold(c),
     where |-> WhereClause(c.agent_id, c.filters)]

\* Memory(**m): the model keeps the fields it declares and ignores the rest.
Memory(m) == [id |-> m.id, content |-> m.content]

\* [Memory(**m) for m in result["data"]["search_memories"]]
MemoryList(rows) == [i \in 1..Len(rows) |-> Memory(rows[i])]

(***************************************************************************)
(* The client object: __init__, _execute_query and get_agent.              *)
(***************************************************************************)
\* Inputs of the constructor. A URL is the sequence of the pieces it is
\* formatted from.
Urls == {<<"http://localhost:8080">>, <<"http://test-url">>}
ApiKeys == {"myhasurasecret", "test-secret"}
OpenAIKeyArgs == Optional({"", "test-openai-key"})
Environs == Optional({"", "env-openai-key"})
CtorArgs == [url : Urls, api_key : ApiKeys, openai_api_key : OpenAIKeyArgs]

\* Python's `a or b` on optional strings.
PyOr(a, b) == IF Truthy(a) THEN a ELSE b

\* Variant of ResolveOpenAIKey: the environment is consulted first.
ResolveOpenAIKeyEnvFirst(arg, env) == PyOr(env, arg)

\* openai_api_key or os.getenv("OPENAI_API_KEY")
ResolveOpenAIKey(arg, env) == PyOr(arg, env)

NoClient ==
    [state |-> "none", args |-> {}, url |-> <<>>, headers |-> <<>>,
     openai_api_key |-> {}, error |-> ""]

\* The object __init__ leaves behind, or the ValueError it raises. The field
\* openai_api_key is the key handed to the provider library (openai.api_key).
NewClient(args, env) ==
    LET key == ResolveOpenAIKey(args.openai_api_key, env)
    IN  IF ~Truthy(key)
            THEN [NoClient EXCEPT !.state = "ValueError", !.args = {args},
                                  !.error = "OpenAI API key is required"]
            ELSE [state |-> "ready",
                  args |-> {args},
                  url |-> args.url \o <<"/v1/graphql">>,
                  headers |-> [content_type |-> "application/json",
                               x_hasura_admin_secret |-> args.api_key],
                  openai_api_key |-> key,
                  error |-> ""]

\* The client of the recall calls: the one the tests' fixture builds.
FixtureClient ==
    NewClient([url |-> <<"http://test-url">>, api_key |-> "test-secret",
               openai_api_key |-> {"test-openai-key"}], {})

\* Agents and the bodies the backend can answer a GetAgent query with.
AgentIdArgs == {"test-agent-id", "any-id"}
AgentRow(id) ==
    [id |-> id, name |-> "TestAgent", status |-> "active", slug |-> "test-agent"]
\* Agent(**agent_data): the declared fields are kept.
Agent(row) == [id |-> row.id, name |-> row.name, status |-> row.status]
ErrorMessages == {"GraphQL Error", "field not found"}
Bodies ==
    {[data |-> "object", agents_by_pk |-> a, errors |-> <<>>] :
        a \in Optional({AgentRow(id) : id \in AgentIdArgs})}
    \cup {[data |-> d, agents_by_pk |-> {}, errors |-> <<m>>] :
            d \in {"absent", "null"}, m \in ErrorMessages}

NoError == [type |-> "none", message |-> ""]

\* What get_agent does with the body _execute_query returns:
\* result["data"]["agents_by_pk"], then Agent(**agent_data) or None.
GetAgentOutcome(body) ==
    IF body.data = "absent"
        THEN [raised |-> TRUE, error |-> [type |-> "KeyError", message |-> "data"],
              value |-> {}]
    ELSE IF body.data = "null"
        THEN [raised |-> TRUE,
              error |-> [type |-> "TypeError",
                         message |-> "'NoneType' object is not subscriptable"],
              value |-> {}]
    ELSE [raised |-> FALSE, error |-> NoError,
          value |-> {Agent(a) : a \in body.agents_by_pk}]

\* The POST of _execute_query.
PostRequest(c, operation, variables) ==
    [url |-> c.url, operation |-> operation, variables |-> variables,
     headers |-> c.headers]

AgentIdle ==
    /\ agentPc = "idle"
    /\ agentCall = {}
    /\ agentPosts = <<>>
    /\ agentBody = {}
    /\ agentResult = {}
    /\ agentError = NoError

(***************************************************************************)
(* remember: its inputs and what the collaborators answer.                 *)
(***************************************************************************)
Contents == {"test content", "The sky is blue", ""}
MetadataArgs == Optional({EmptyDict, [k \in {"type"} |-> "note"]})
RememberCalls == [content : Contents, agent_id : AgentIds, metadata : MetadataArgs]
ProviderErrors == {"OpenAI API Error", "Rate limit exceeded"}

\* The variables of the AddMemory mutation; an omitted argument is sent as
\* null.
AddMemoryVariables(c, embedding) ==
    [agent_id |-> c.agent_id, content |-> c.content, metadata |-> c.metadata,
     embedding |-> embedding]

\* The row insert_memories_one answers with.
InsertedRow(id, c) ==
    [id |-> id, agent_id |-> c.agent_id, content |-> c.content,
     metadata |-> c.metadata]
InsertBodies(c) ==
    {[data |-> "object", insert_memories_one |-> {InsertedRow(id, c)}] :
        id \in {"memory-1", "memory-2"}}
    \cup {[data |-> "absent", insert_memories_one |-> {}]}

RememberIdle ==
    /\ rememberPc = "idle"
    /\ rememberCall = {}
    /\ rememberEmbedLog = <<>>
    /\ rememberPosts = <<>>
    /\ rememberResult = {}
    /\ rememberError = NoError

RecallIdle ==
    /\ pc = "idle"
    /\ call = NoCall
    /\ query_embedding = <<>>
    /\ embedLog = <<>>
    /\ searchLog = <<>>
    /\ completionLog = <<>>
    /\ responses = <<>>
    /\ result = <<>>
    /\ error = "none"

(***************************************************************************)
(* setup_openai_key and the env file. A file content is the sequence of    *)
(* the tokens its text is made of; the newline is a token.                 *)
(***************************************************************************)
NL == "\n"
KeyName == "OPENAI_API_KEY="
FileTokens == {NL, KeyName, "# ", "export ", "old"}
FileContents == SeqsUpTo(FileTokens, MaxFileLen)
EnteredKeys == {"sk-new", ""}

\* str.splitlines(): the lines between newlines; a final newline ends the
\* last line and opens no further one.
RECURSIVE SplitLinesFrom(_, _)
SplitLinesFrom(content, line) ==
    IF content = <<>>
        THEN IF line = <<>> THEN <<>> ELSE <<line>>
    ELSE IF Head(content) = NL
        THEN <<line>> \o SplitLinesFrom(Tail(content), <<>>)
    ELSE SplitLinesFrom(Tail(content), Append(line, Head(content)))
SplitLines(content) == SplitLinesFrom(content, <<>>)

\* "\n".join(lines)
RECURSIVE JoinLines(_)
JoinLines(lines) ==
    IF lines = <<>> THEN <<>>
    ELSE IF Len(lines) = 1 THEN Head(lines)
    ELSE Head(lines) \o <<NL>> \o JoinLines(Tail(lines))

\* "OPENAI_API_KEY=" in env_content
ContainsKeyName(content) == \E i \in 1..Len(content) : content[i] = KeyName

\* line.startswith("OPENAI_API_KEY=")
StartsWithKeyName(line) == line # <<>> /\ Head(line) = KeyName

KeyLine(api_key) == <<KeyName, api_key>>

\* The content setup_openai_key writes back.
ReplaceOrAddKey(env_content, api_key) ==
    IF ContainsKeyName(env_content)
        THEN LET lines == SplitLines(env_content)
             IN  JoinLines([i \in 1..Len(lines) |->
                              IF StartsWithKeyName(lines[i])
                                  THEN KeyLine(api_key) ELSE lines[i]])
        ELSE env_content \o <<NL, "# ", "OpenAI Configuration", NL>>
                \o KeyLine(api_key) \o <<NL>>

\* env_file.read_text() if env_file.exists() else ""
ReadEnvFile(file) == IF file = {} THEN <<>> ELSE TheOne(file)

\* The process environment as the CLI reads it.
NoEnviron == [HASURA_URL |-> {}, HASURA_ADMIN_SECRET |-> {}, OPENAI_API_KEY |-> {}]

\* setup_openai_key(env_file): the user confirms and enters api_key, or
\* declines.
SetupOpenAIKey(file, env, confirm, api_key) ==
    IF confirm
        THEN [returned |-> TRUE,
              file |-> {ReplaceOrAddKey(ReadEnvFile(file), api_key)},
              environ |-> [env EXCEPT !.OPENAI_API_KEY = {api_key}]]
        ELSE [returned |-> FALSE, file |-> file, environ |-> env]

SetupIdle ==
    /\ setupPc = "idle"
    /\ setupBefore = {}
    /\ setupEntered = {}
    /\ setupResult = {}

(***************************************************************************)
(* The CLI (src/props_os/cli/main.py): get_client and the commands         *)
(* agent register, agent unregister and memory recall. A text is the       *)
(* sequence of the tokens it is made of.                                   *)
(***************************************************************************)
\* The defaults of get_client's os.getenv calls.
DefaultHasuraUrl == <<"http://localhost:8080", "/v1/graphql">>
DefaultHasuraSecret == "myhasurasecret"

HasuraUrlEnvs == Optional({<<"http://test-url">>, <<"http://hasura:8080", "/v1/graphql">>})
CliEnvirons ==
    [HASURA_URL : HasuraUrlEnvs,
     HASURA_ADMIN_SECRET : Optional({"test-secret"}),
     OPENAI_API_KEY : Optional({"test-key"})]
CliEnvFiles == Optional({<<>>, <<"export ", KeyName, "old", NL>>})

\* os.getenv(name, default)
GetEnv(value, default) == IF value = {} THEN default ELSE TheOne(value)

\* get_client(): the client it returns, or the ValueError it raises, with
\* what setup_openai_key did to the env file and the environment on the way.
GetClient(file, env, confirm, api_key) ==
    LET setup == IF Truthy(env.OPENAI_API_KEY)
                     THEN [returned |-> TRUE, file |-> file, environ |-> env]
                     ELSE SetupOpenAIKey(file, env, confirm, api_key)
        args == [url |-> GetEnv(env.HASURA_URL, DefaultHasuraUrl),
                 api_key |-> GetEnv(env.HASURA_ADMIN_SECRET, DefaultHasuraSecret),
                 openai_api_key |-> setup.environ.OPENAI_API_KEY]
    IN  [file |-> setup.file,
         environ |-> setup.environ,
         client |-> IF setup.returned
                        THEN NewClient(args, setup.environ.OPENAI_API_KEY)
                        ELSE [NoClient EXCEPT !.state = "ValueError",
                                              !.error = "OpenAI API key is required"]]

\* --filter options as typed, and the option lists of one command line.
FilterOptions ==
    { <<"type", "=", "note">>,
      <<"confidence", "._", "gt", "=", "0.8">>,
      <<"confidence", "._", "lt", "=", "0.9">>,
      <<"type">> }
FilterLists == SeqsUpTo(FilterOptions, MaxFilters)

Has(tokens, t) == \E i \in 1..Len(tokens) : tokens[i] = t
IndexOf(tokens, t) ==
    CHOOSE i \in 1..Len(tokens) :
        tokens[i] = t /\ \A j \in 1..(i - 1) : tokens[j] # t
\* text.split(t, 1)
SplitOnce(tokens, t) ==
    LET i == IndexOf(tokens, t)
    IN  <<SubSeq(tokens, 1, i - 1), SubSeq(tokens, i + 1, Len(tokens))>>
RECURSIVE Text(_)
Text(tokens) == IF tokens = <<>> THEN "" ELSE Head(tokens) \o Text(Tail(tokens))

\* json.loads on the texts of the model: the ones that are JSON documents.
JsonKinds == [t \in {"0.8", "0.9"} |-> "number"] @@ [t \in {"{}"} |-> "object"]
IsJson(text) == text \in DOMAIN JsonKinds
\* try json.loads(value) except JSONDecodeError: value
ParsedValue(text) ==
    IF IsJson(text) THEN [json |-> JsonKinds[text], text |-> text]
                    ELSE [json |-> "string", text |-> text]

\* One well-formed option as the dict entry the loop assigns.
ParseFilter(f) ==
    LET kv == SplitOnce(f, "=")
        value == ParsedValue(Text(kv[2]))
    IN  IF Has(kv[1], "._")
            THEN LET ko == SplitOnce(kv[1], "._")
                 IN  [key |-> Text(ko[1]),
                      value |-> Operator("_" \o Text(ko[2]), value)]
            ELSE [key |-> Text(kv[1]), value |-> Scalar(value)]

\* d[k] = v
Put(d, k, v) == [x \in DOMAIN d \cup {k} |-> IF x = k THEN v ELSE d[x]]

\* The loop over the options: it stops at the first one without "=".
RECURSIVE ParseFiltersInto(_, _)
ParseFiltersInto(options, filters) ==
    IF options = <<>>
        THEN [ok |-> TRUE, filters |-> filters, invalid |-> <<>>]
    ELSE IF ~Has(Head(options), "=")
        THEN [ok |-> FALSE, filters |-> filters, invalid |-> Head(options)]
    ELSE LET e == ParseFilter(Head(options))
         IN  ParseFiltersInto(Tail(options), Put(filters, e.key, e.value))
ParseFilters(options) == ParseFiltersInto(options, EmptyDict)

\* Command lines.
MetadataOptions == Optional({"{}", "not json"})
ExtraOptions == Optional({"--slug"})
CliCommands ==
    {[name |-> "agent register", argument |-> "TestAgent", metadata |-> m,
      extra |-> x, agent_id |-> {}, filter |-> <<>>] :
        m \in MetadataOptions, x \in ExtraOptions}
    \cup {[name |-> "agent unregister", argument |-> "agent-1", metadata |-> {},
            extra |-> {}, agent_id |-> {}, filter |-> <<>>]}
    \cup {[name |-> "memory recall", argument |-> "test query", metadata |-> {},
            extra |-> {}, agent_id |-> a, filter |-> f] :
              a \in AgentIds, f \in FilterLists}

\* The recall call the memory recall command makes; --limit and --threshold
\* keep their defaults.
CliRecallCall(cmd, filters) ==
    [query |-> cmd.argument, agent_id |-> cmd.agent_id, limit |-> DefaultLimit,
     threshold |-> DefaultThreshold, filters |-> filters, kwargs |-> NoKwargs]

\* What the backend answers.
CliBodies(cmd) ==
    IF cmd.name = "agent register"
        THEN {[data |-> "object", value |-> {AgentRow("agent-1")}],
              [data |-> "absent", value |-> {}]}
    ELSE IF cmd.name = "agent unregister"
        THEN {[data |-> "object", value |-> {[id |-> cmd.argument]}],
              [data |-> "object", value |-> {}],
              [data |-> "absent", value |-> {}]}
    ELSE {[data |-> "object", value |-> {rows}] :
            rows \in {<<>>, <<Row("1", 85)>>}}
         \cup {[data |-> "absent", value |-> {}]}

\* console.print calls.
ErrorLine(text) == [style |-> "Error:", text |-> text]
OkLine(text) == [style |-> "ok", text |-> text]

NotRaised == [type |-> "none", message |-> "", in |-> ""]

CliIdle ==
    /\ cliPc = "idle"
    /\ cliCommand = {}
    /\ cliClient = NoClient
    /\ cliCalls = <<>>
    /\ cliEmbeds = <<>>
    /\ cliPosts = <<>>
    /\ cliOutput = <<>>
    /\ cliRaised = NotRaised
    /\ cliExit = {}

(***************************************************************************)
(* The up command: the subprocesses it runs and what they answer.          *)
(***************************************************************************)
\* range(30) of each readiness wait.
ProbeLimit == 30

\* The files up looks for in the current directory.
UpFileSets == [compose : BOOLEAN, migration : BOOLEAN, metadata : BOOLEAN]
NoFiles == [compose |-> FALSE, migration |-> FALSE, metadata |-> FALSE]

ReturnCodes == {0, 1}
ExpectedServices == {"postgres", "hasura"}
ProbeOutcomes == {"ok", "fail", "raise"}

\* What curl prints for a metadata request: nothing, a JSON document with or
\* without an "error" text (given by the phrases that occur in it), or
\* something that is not JSON.
NoOutput == [kind |-> "empty", error |-> {}]
NotJsonOutput == [kind |-> "text", error |-> {}]
JsonOutput(phrases) == [kind |-> "json", error |-> phrases]
ErrorPhrases == {"already exists", "already tracked"}
CurlOutcomes ==
    {[rc |-> 0, stdout |-> JsonOutput(e)] :
        e \in Optional({{}, {"already exists"}, ErrorPhrases})}
    \cup {[rc |-> 0, stdout |-> NotJsonOutput], [rc |-> 7, stdout |-> NoOutput]}

\* The check of the pg_add_source response: stop on unparsable output and on
\* an error that does not say "already exists".
AddSourceStops(out) ==
    /\ out.stdout.kind # "empty"
    /\ \/ out.stdout.kind = "text"
       \/ /\ out.stdout.error # {}
          /\ "already exists" \notin TheOne(out.stdout.error)

\* The check of the track-tables response: stop on unparsable output and on
\* an error that does not contain both phrases.
TrackTablesStops(out) ==
    /\ out.stdout.kind # "empty"
    /\ \/ out.stdout.kind = "text"
       \/ /\ out.stdout.error # {}
          /\ ~(ErrorPhrases \subseteq TheOne(out.stdout.error))

\* An entry of the log of subprocesses run; a subprocess that could not be
\* started has return code -1.
Ran(cmd, rc) == [cmd |-> cmd, rc |-> rc]

UpIdle ==
    /\ upPc = "idle"
    /\ upLog = <<>>
    /\ upAttempts = 0
    /\ upLastProbe = "none"
    /\ upReady = {}
    /\ upOutput = <<>>
    /\ upExit = {}

(***************************************************************************)
(* The create command and the directory it works in.                       *)
(***************************************************************************)
ProjectNames == {"my-project", "demo"}

\* What create puts into the project directory, in the order it does.
CopySteps ==
    <<"/hasura", "/docker-compose.yml", "/examples", "/examples/example.py",
      "/.env">>
CopyCount == Len(CopySteps)
ProjectPaths(name) == {name} \cup {name \o CopySteps[i] : i \in 1..CopyCount}
AllPaths == UNION {ProjectPaths(name) : name \in ProjectNames}

\* An entry of the file system.
Absent == [kind |-> "absent", content |-> <<>>]
Directory == [kind |-> "dir", content |-> <<>>]
File(content) == [kind |-> "file", content |-> content]

\* The content of templates/.env.example.
EnvExamples == {<<KeyName, NL>>, <<"# ", KeyName, "your-key-here", NL>>}

\* What a template becomes in the project directory.
Copied(step, template) ==
    IF step \in {"/hasura", "/examples"} THEN Directory
    ELSE IF step = "/.env" THEN File(template)
    ELSE File(<<"template">>)

\* The directory before the command: each project path is absent, a file,
\* or a directory that holds the user's own .env.
EmptyFs == [p \in AllPaths |-> Absent]
UserDirectory(fs, name) ==
    [fs EXCEPT ![name] = Directory, ![name \o "/.env"] = File(<<"old">>)]
UserFile(fs, name) == [fs EXCEPT ![name] = File(<<"old">>)]
RECURSIVE FileSystemsOver(_, _)
FileSystemsOver(names, fss) ==
    IF names = {} THEN fss
    ELSE LET name == CHOOSE n \in names : TRUE
         IN  FileSystemsOver(names \ {name},
                             fss \cup {UserDirectory(fs, name) : fs \in fss}
                                 \cup {UserFile(fs, name) : fs \in fss})
FileSystems == FileSystemsOver(ProjectNames, {EmptyFs})

\* Path.exists()
Exists(fs, path) == fs[path].kind # "absent"

\* The first n copy steps done on the project directory.
AfterCopies(fs, name, n, template) ==
    [p \in AllPaths |->
        IF \E i \in 1..n : p = name \o CopySteps[i]
            THEN Copied(CHOOSE step \in {CopySteps[i] : i \in 1..n} :
                            p = name \o step,
                        template)
            ELSE fs[p]]

CreateIdle ==
    /\ createPc = "idle"
    /\ createName = {}
    /\ createBefore = createFs
    /\ createPrompted = FALSE
    /\ createOutput = <<>>
    /\ createExit = {}

\* The operations other than m have no call in progress.
Quiescent(m) ==
    /\ (m = "remember" \/ RememberIdle)
    /\ (m = "setup" \/ SetupIdle)
    /\ (m \in {"setup", "cli", "up"} \/ envFile = {})
    /\ (m \in {"setup", "cli", "up", "create"} \/ cliEnviron = NoEnviron)
    /\ (m = "cli" \/ CliIdle)
    /\ (m = "up" \/ (UpIdle /\ upFiles = NoFiles))
    /\ (m = "create" \/ (createFs = EmptyFs /\ CreateIdle))

\* A client as the tests' fixture builds it, with no call in progress.
FixtureReady ==
    /\ environ = {}
    /\ client = FixtureClient
    /\ AgentIdle

(***************************************************************************)
(* The state machine.                                                      *)
(***************************************************************************)
Init ==
    /\ FixtureReady
    /\ Quiescent("recall")
    /\ pc = "idle"
    /\ call = NoCall
    /\ query_embedding = <<>>
    /\ embedLog = <<>>
    /\ searchLog = <<>>
    /\ completionLog = <<>>
    /\ responses = <<>>
    /\ result = <<>>
    /\ error = "none"

\* A call whose keywords the signature rejects: nothing of the body runs.
RecallRejected ==
    \E c \in Calls :
        /\ pc = "idle"
        /\ ~AcceptsKwargs(c.kwargs)
        /\ call' = c
        /\ pc' = "raised"
        /\ error' = "TypeError"
        /\ UNCHANGED <<nonRecallVars, query_embedding, embedLog, searchLog, completionLog,
                       responses, result>>

\* recall is entered and asks the embedding provider for the query's vector.
Recall ==
    \E c \in Calls :
        /\ pc = "idle"
        /\ AcceptsKwargs(c.kwargs)
        /\ call' = c
        /\ embedLog' = Append(embedLog, EmbeddingRequest(EmbeddedText(c)))
        /\ pc' = "embedding"
        /\ UNCHANGED <<nonRecallVars, query_embedding, searchLog, completionLog, responses,
                       result, error>>

\* Variant of EmbeddingFails: the except clause swallows the error and the
\* search goes on with an empty vector.
EmbeddingFailsSwallowed ==
    /\ pc = "embedding"
    /\ query_embedding' = <<>>
    /\ searchLog' = Append(searchLog, SearchVariables(<<>>, call))
    /\ pc' = "searching"
    /\ UNCHANGED <<nonRecallVars, call, embedLog, completionLog, responses, result, error>>

\* The provider fails: recall prints the panel and re-raises.
EmbeddingFails ==
    /\ pc = "embedding"
    /\ pc' = "raised"
    /\ error' = "EmbeddingError"
    /\ UNCHANGED <<nonRecallVars, call, query_embedding, embedLog, searchLog, completionLog,
                   responses, result>>

\* The provider answers: recall builds the where clause and the variables
\* and posts the one search request.
EmbeddingReturns ==
    /\ pc = "embedding"
    /\ query_embedding' = EmbeddingOf(embedLog[Len(embedLog)].input)
    /\ searchLog' = Append(searchLog, SearchVariables(query_embedding', call))
    /\ pc' = "searching"
    /\ UNCHANGED <<nonRecallVars, call, embedLog, completionLog, responses, result, error>>

\* Variant of SearchFails: the failed request is posted again.
SearchFailsRetried ==
    /\ pc = "searching"
    /\ Len(searchLog) < 3
    /\ searchLog' = Append(searchLog, searchLog[Len(searchLog)])
    /\ UNCHANGED <<nonRecallVars, pc, call, query_embedding, embedLog, completionLog,
                   responses, result, error>>

\* raise_for_status raises on an HTTP error status.
SearchFails ==
    /\ pc = "searching"
    /\ pc' = "raised"
    /\ error' = "HTTPError"
    /\ UNCHANGED <<nonRecallVars, call, query_embedding, embedLog, searchLog, completionLog,
                   responses, result>>

\* Variant of SearchReturns: an empty answer is followed by one more search
\* at a threshold 0.05 lower.
SearchReturnsRelaxing ==
    \E rows \in Responses :
        /\ pc = "searching"
        /\ responses' = Append(responses, rows)
        /\ IF rows = <<>> /\ Len(searchLog) < 2
              THEN /\ searchLog' = Append(searchLog,
                         [searchLog[Len(searchLog)] EXCEPT !.threshold = @ - 5])
                   /\ pc' = "searching"
                   /\ UNCHANGED result
              ELSE /\ result' = MemoryList(rows)
                   /\ pc' = "done"
                   /\ UNCHANGED searchLog
        /\ UNCHANGED <<nonRecallVars, call, query_embedding, embedLog, completionLog, error>>

\* Variant of SearchReturns: the relaxation loop of the design, an empty
\* answer is followed by a search 0.05 lower while that stays above 0.3.
SearchReturnsRelaxingToFloor ==
    \E rows \in Responses :
        /\ pc = "searching"
        /\ responses' = Append(responses, rows)
        /\ IF rows = <<>> /\ searchLog[Len(searchLog)].threshold - 5 > 30
              THEN /\ searchLog' = Append(searchLog,
                         [searchLog[Len(searchLog)] EXCEPT !.threshold = @ - 5])
                   /\ pc' = "searching"
                   /\ UNCHANGED result
              ELSE /\ result' = MemoryList(rows)
                   /\ pc' = "done"
                   /\ UNCHANGED searchLog
        /\ UNCHANGED <<nonRecallVars, call, query_embedding, embedLog, completionLog, error>>

\* Variant of SearchReturns: an answer with fewer rows than the limit is
\* followed by one more search at a threshold 0.05 lower.
SearchReturnsFillingLimit ==
    \E rows \in Responses :
        /\ pc = "searching"
        /\ responses' = Append(responses, rows)
        /\ IF Len(rows) < call.limit /\ Len(searchLog) < 2
              THEN /\ searchLog' = Append(searchLog,
                         [searchLog[Len(searchLog)] EXCEPT !.threshold = @ - 5])
                   /\ pc' = "searching"
                   /\ UNCHANGED result
              ELSE /\ result' = MemoryList(rows)
                   /\ pc' = "done"
                   /\ UNCHANGED searchLog
        /\ UNCHANGED <<nonRecallVars, call, query_embedding, embedLog, completionLog, error>>

\* The backend answers with rows: recall returns them as Memory objects.
SearchReturns ==
    \E rows \in Responses :
        /\ pc = "searching"
        /\ responses' = Append(responses, rows)
        /\ result' = MemoryList(rows)
        /\ pc' = "done"
        /\ UNCHANGED <<nonRecallVars, call, query_embedding, embedLog, searchLog,
                       completionLog, error>>

\* The call is over; the client keeps nothing of it.
Return ==
    /\ pc \in {"done", "raised"}
    /\ pc' = "idle"
    /\ call' = NoCall
    /\ query_embedding' = <<>>
    /\ embedLog' = <<>>
    /\ searchLog' = <<>>
    /\ completionLog' = <<>>
    /\ responses' = <<>>
    /\ result' = <<>>
    /\ error' = "none"
    /\ UNCHANGED nonRecallVars

Next ==
    \/ RecallRejected
    \/ Recall
    \/ EmbeddingFails
    \/ EmbeddingReturns
    \/ SearchFails
    \/ SearchReturns
    \/ Return

Spec == Init /\ [][Next]_vars

(***************************************************************************)
(* Constructing a client and calling get_agent on it.                      *)
(***************************************************************************)
InitClient ==
    /\ RecallIdle
    /\ environ \in Environs
    /\ client = NoClient
    /\ AgentIdle
    /\ Quiescent("client")

\* PropsOS(url, api_key, openai_api_key)
Construct ==
    \E args \in CtorArgs :
        /\ client.state = "none"
        /\ client' = NewClient(args, environ)
        /\ UNCHANGED <<nonClientVars, environ, agentPc, agentCall, agentPosts,
                       agentBody, agentResult, agentError>>

\* The caller is done with the object, or with the ValueError.
Discard ==
    /\ client.state # "none"
    /\ agentPc = "idle"
    /\ client' = NoClient
    /\ UNCHANGED <<nonClientVars, environ, agentPc, agentCall, agentPosts,
                   agentBody, agentResult, agentError>>

\* get_agent posts its query.
GetAgent ==
    \E id \in AgentIdArgs :
        /\ client.state = "ready"
        /\ agentPc = "idle"
        /\ agentCall' = {id}
        /\ agentPosts' = Append(agentPosts,
                                PostRequest(client, "GetAgent", [id |-> id]))
        /\ agentPc' = "posting"
        /\ UNCHANGED <<nonClientVars, environ, client, agentBody, agentResult,
                       agentError>>

\* raise_for_status raises on an HTTP error status.
GetAgentHttpFails ==
    /\ agentPc = "posting"
    /\ agentPc' = "raised"
    /\ agentError' = [type |-> "HTTPError", message |-> "Unauthorized"]
    /\ UNCHANGED <<nonClientVars, environ, client, agentCall, agentPosts,
                   agentBody, agentResult>>

\* The backend answers with HTTP success and a body.
GetAgentAnswered ==
    \E body \in Bodies :
        LET out == GetAgentOutcome(body)
        IN  /\ agentPc = "posting"
            /\ agentBody' = {body}
            /\ agentPc' = IF out.raised THEN "raised" ELSE "returned"
            /\ agentError' = out.error
            /\ agentResult' = out.value
            /\ UNCHANGED <<nonClientVars, environ, client, agentCall, agentPosts>>

\* The call is over.
GetAgentReturn ==
    /\ agentPc \in {"returned", "raised"}
    /\ agentPc' = "idle"
    /\ agentCall' = {}
    /\ agentPosts' = <<>>
    /\ agentBody' = {}
    /\ agentResult' = {}
    /\ agentError' = NoError
    /\ UNCHANGED <<nonClientVars, environ, client>>

NextClient ==
    \/ Construct
    \/ Discard
    \/ GetAgent
    \/ GetAgentHttpFails
    \/ GetAgentAnswered
    \/ GetAgentReturn

SpecClient == InitClient /\ [][NextClient]_vars

(***************************************************************************)
(* One remember call on a constructed client.                              *)
(***************************************************************************)
InitRemember ==
    /\ FixtureReady
    /\ RecallIdle
    /\ RememberIdle
    /\ Quiescent("remember")

\* remember asks the provider for the embedding of the content.
Remember ==
    \E c \in RememberCalls :
        /\ rememberPc = "idle"
        /\ rememberCall' = {c}
        /\ rememberEmbedLog' = <<[request |-> EmbeddingRequest(c.content),
                                  outcome |-> "pending"]>>
        /\ rememberPc' = "embedding"
        /\ UNCHANGED <<nonRememberVars, rememberPosts, rememberResult,
                       rememberError>>

\* Variant of RememberEmbeddingFails: the failure is reported and the
\* memory is stored without an embedding.
RememberEmbeddingFailsStored ==
    \E msg \in ProviderErrors :
        /\ rememberPc = "embedding"
        /\ rememberEmbedLog' = [rememberEmbedLog EXCEPT ![1].outcome = msg]
        /\ rememberPosts' =
              Append(rememberPosts,
                     PostRequest(client, "AddMemory",
                                 AddMemoryVariables(TheOne(rememberCall), <<>>)))
        /\ rememberPc' = "posting"
        /\ UNCHANGED <<nonRememberVars, rememberCall, rememberResult,
                       rememberError>>

\* The provider raises: the except block prints a panel and re-raises.
RememberEmbeddingFails ==
    \E msg \in ProviderErrors :
        /\ rememberPc = "embedding"
        /\ rememberEmbedLog' = [rememberEmbedLog EXCEPT ![1].outcome = msg]
        /\ rememberError' = [type |-> "Exception", message |-> msg]
        /\ rememberPc' = "raised"
        /\ UNCHANGED <<nonRememberVars, rememberCall, rememberPosts,
                       rememberResult>>

\* The provider answers: the mutation is posted with the embedding.
RememberEmbeddingReturns ==
    /\ rememberPc = "embedding"
    /\ rememberEmbedLog' = [rememberEmbedLog EXCEPT ![1].outcome = "ok"]
    /\ rememberPosts' =
          Append(rememberPosts,
                 PostRequest(client, "AddMemory",
                             AddMemoryVariables(
                                 TheOne(rememberCall),
                                 EmbeddingOf(TheOne(rememberCall).content))))
    /\ rememberPc' = "posting"
    /\ UNCHANGED <<nonRememberVars, rememberCall, rememberResult, rememberError>>

\* raise_for_status raises on an HTTP error status.
RememberHttpFails ==
    /\ rememberPc = "posting"
    /\ rememberError' = [type |-> "HTTPError", message |-> "Unauthorized"]
    /\ rememberPc' = "raised"
    /\ UNCHANGED <<nonRememberVars, rememberCall, rememberEmbedLog,
                   rememberPosts, rememberResult>>

\* The backend answers: Memory(**result["data"]["insert_memories_one"]).
RememberAnswered ==
    /\ rememberPc = "posting"
    /\ \E body \in InsertBodies(TheOne(rememberCall)) :
        /\ IF body.data = "absent"
              THEN /\ rememberError' = [type |-> "KeyError", message |-> "data"]
                   /\ rememberPc' = "raised"
                   /\ UNCHANGED rememberResult
              ELSE /\ rememberResult' = {Memory(TheOne(body.insert_memories_one))}
                   /\ rememberPc' = "returned"
                   /\ UNCHANGED rememberError
        /\ UNCHANGED <<nonRememberVars, rememberCall, rememberEmbedLog,
                       rememberPosts>>

\* The call is over.
RememberReturn ==
    /\ rememberPc \in {"returned", "raised"}
    /\ rememberPc' = "idle"
    /\ rememberCall' = {}
    /\ rememberEmbedLog' = <<>>
    /\ rememberPosts' = <<>>
    /\ rememberResult' = {}
    /\ rememberError' = NoError
    /\ UNCHANGED nonRememberVars

NextRemember ==
    \/ Remember
    \/ RememberEmbeddingFails
    \/ RememberEmbeddingReturns
    \/ RememberHttpFails
    \/ RememberAnswered
    \/ RememberReturn

SpecRemember == InitRemember /\ [][NextRemember]_vars

(***************************************************************************)
(* setup_openai_key on an env file of any content.                         *)
(***************************************************************************)
InitSetup ==
    /\ FixtureReady
    /\ RecallIdle
    /\ Quiescent("setup")
    /\ SetupIdle
    /\ envFile \in Optional(FileContents)
    /\ cliEnviron = NoEnviron

\* The user confirms and enters a key: the file is rewritten and the
\* variable is set for the process.
SetupConfirmed ==
    \E api_key \in EnteredKeys :
        LET out == SetupOpenAIKey(envFile, cliEnviron, TRUE, api_key)
        IN  /\ setupPc = "idle"
            /\ setupBefore' = {ReadEnvFile(envFile)}
            /\ setupEntered' = {api_key}
            /\ envFile' = out.file
            /\ cliEnviron' = out.environ
            /\ setupResult' = {out.returned}
            /\ setupPc' = "returned"
            /\ UNCHANGED nonSetupVars

\* The user declines: nothing is written.
SetupDeclined ==
    LET out == SetupOpenAIKey(envFile, cliEnviron, FALSE, "")
    IN  /\ setupPc = "idle"
        /\ setupBefore' = {ReadEnvFile(envFile)}
        /\ setupEntered' = {}
        /\ envFile' = out.file
        /\ cliEnviron' = out.environ
        /\ setupResult' = {out.returned}
        /\ setupPc' = "returned"
        /\ UNCHANGED nonSetupVars

\* The caller goes on; the file stays as written.
SetupReturn ==
    /\ setupPc = "returned"
    /\ setupPc' = "idle"
    /\ setupBefore' = {}
    /\ setupEntered' = {}
    /\ setupResult' = {}
    /\ UNCHANGED <<nonSetupVars, envFile, cliEnviron>>

NextSetup ==
    \/ SetupConfirmed
    \/ SetupDeclined
    \/ SetupReturn

SpecSetup == InitSetup /\ [][NextSetup]_vars

(***************************************************************************)
(* Runs of the CLI commands.                                               *)
(***************************************************************************)
InitCli ==
    /\ FixtureReady
    /\ RecallIdle
    /\ Quiescent("cli")
    /\ CliIdle
    /\ envFile \in CliEnvFiles
    /\ cliEnviron \in CliEnvirons

\* The command prints and returns, or an `except Exception` block prints the
\* exception: click ends the process with exit code 0.
CliReturns(lines, raised) ==
    /\ cliOutput' = cliOutput \o lines
    /\ cliRaised' = raised
    /\ cliExit' = {0}
    /\ cliPc' = "exited"

\* str(e) printed by the except block of a command.
CliCatches(type, message, in) ==
    CliReturns(<<ErrorLine(<<message>>)>>,
               [type |-> type, message |-> message, in |-> in])

\* click rejects an option the command does not declare: usage error, exit
\* code 2, and the command's function is not entered.
CliUsageError ==
    \E cmd \in CliCommands :
        /\ cliPc = "idle"
        /\ cmd.extra # {}
        /\ cliCommand' = {cmd}
        /\ cliOutput' = <<ErrorLine(<<"No such option: ", TheOne(cmd.extra)>>)>>
        /\ cliExit' = {2}
        /\ cliPc' = "exited"
        /\ UNCHANGED <<nonCliVars, envFile, cliEnviron, cliClient, cliCalls,
                       cliEmbeds, cliPosts, cliRaised>>

\* click enters the command's function.
CliInvoke ==
    \E cmd \in CliCommands :
        /\ cliPc = "idle"
        /\ cmd.extra = {}
        /\ cliCommand' = {cmd}
        /\ cliPc' = "get_client"
        /\ UNCHANGED <<nonCliVars, envFile, cliEnviron, cliClient, cliCalls,
                       cliEmbeds, cliPosts, cliOutput, cliRaised, cliExit>>

\* client = get_client()
CliGetClient ==
    \E confirm \in BOOLEAN, api_key \in EnteredKeys :
        LET out == GetClient(envFile, cliEnviron, confirm, api_key)
        IN  /\ cliPc = "get_client"
            /\ envFile' = out.file
            /\ cliEnviron' = out.environ
            /\ IF out.client.state = "ready"
                  THEN /\ cliClient' = out.client
                       /\ cliPc' = "body"
                       /\ UNCHANGED <<cliOutput, cliRaised, cliExit>>
                  ELSE /\ CliCatches("ValueError", out.client.error, "get_client")
                       /\ UNCHANGED cliClient
            /\ UNCHANGED <<nonCliVars, cliCommand, cliCalls, cliEmbeds, cliPosts>>

\* agent register: json.loads(metadata), then client.register_agent posts
\* the CreateAgent mutation.
CliRegister ==
    LET cmd == TheOne(cliCommand)
        variables == [name |-> cmd.argument, description |-> {},
                      metadata |-> {ParsedValue(m) : m \in cmd.metadata}]
    IN  /\ cliPc = "body"
        /\ cmd.name = "agent register"
        /\ IF cmd.metadata # {} /\ cmd.metadata # {""}
                /\ ~IsJson(TheOne(cmd.metadata))
              THEN /\ CliCatches("JSONDecodeError", "Expecting value", "json.loads")
                   /\ UNCHANGED <<cliCalls, cliPosts>>
              ELSE /\ cliCalls' = Append(cliCalls, [op |-> "register_agent",
                                                     args |-> variables,
                                                     returned |-> {}])
                   /\ cliPosts' = Append(cliPosts,
                                         PostRequest(cliClient, "CreateAgent", variables))
                   /\ cliPc' = "posting"
                   /\ UNCHANGED <<cliOutput, cliRaised, cliExit>>
        /\ UNCHANGED <<nonCliVars, envFile, cliEnviron, cliCommand, cliClient,
                       cliEmbeds>>

\* agent unregister: client.unregister_agent posts the DeleteAgent mutation.
CliUnregister ==
    LET cmd == TheOne(cliCommand)
        variables == [id |-> cmd.argument]
    IN  /\ cliPc = "body"
        /\ cmd.name = "agent unregister"
        /\ cliCalls' = Append(cliCalls, [op |-> "unregister_agent",
                                          args |-> variables,
                                          returned |-> {}])
        /\ cliPosts' = Append(cliPosts,
                              PostRequest(cliClient, "DeleteAgent", variables))
        /\ cliPc' = "posting"
        /\ UNCHANGED <<nonCliVars, envFile, cliEnviron, cliCommand, cliClient,
                       cliEmbeds, cliOutput, cliRaised, cliExit>>

\* memory recall: the --filter options are parsed, then client.recall asks
\* for the embedding of the query.
CliRecall ==
    LET cmd == TheOne(cliCommand)
        parsed == ParseFilters(cmd.filter)
    IN  /\ cliPc = "body"
        /\ cmd.name = "memory recall"
        /\ IF ~parsed.ok
              THEN /\ CliReturns(<<ErrorLine(<<"Invalid filter format: ",
                                               Text(parsed.invalid)>>)>>,
                                 cliRaised)
                   /\ UNCHANGED <<cliCalls, cliEmbeds>>
              ELSE /\ cliCalls' = Append(cliCalls,
                                         [op |-> "recall",
                                          args |-> CliRecallCall(cmd, parsed.filters),
                                          returned |-> {}])
                   /\ cliEmbeds' = Append(cliEmbeds, EmbeddingRequest(cmd.argument))
                   /\ cliPc' = "embedding"
                   /\ UNCHANGED <<cliOutput, cliRaised, cliExit>>
        /\ UNCHANGED <<nonCliVars, envFile, cliEnviron, cliCommand, cliClient,
                       cliPosts>>

\* The embedding provider raises inside client.recall.
CliEmbeddingFails ==
    \E msg \in ProviderErrors :
        /\ cliPc = "embedding"
        /\ CliCatches("Exception", msg, "recall")
        /\ UNCHANGED <<nonCliVars, envFile, cliEnviron, cliCommand, cliClient,
                       cliCalls, cliEmbeds, cliPosts>>

\* The embedding provider answers: client.recall posts the search.
CliEmbeddingReturns ==
    LET c == cliCalls[Len(cliCalls)].args
    IN  /\ cliPc = "embedding"
        /\ cliPosts' = Append(cliPosts,
                              PostRequest(cliClient, "SearchMemories",
                                          SearchVariables(EmbeddingOf(c.query), c)))
        /\ cliPc' = "posting"
        /\ UNCHANGED <<nonCliVars, envFile, cliEnviron, cliCommand, cliClient,
                       cliCalls, cliEmbeds, cliOutput, cliRaised, cliExit>>

\* raise_for_status raises inside the client operation.
CliHttpFails ==
    /\ cliPc = "posting"
    /\ CliCatches("HTTPError", "401 Client Error: Unauthorized",
                  cliCalls[Len(cliCalls)].op)
    /\ UNCHANGED <<nonCliVars, envFile, cliEnviron, cliCommand, cliClient,
                   cliCalls, cliEmbeds, cliPosts>>

\* What the command prints for the value its client operation returned.
CliPrintsResult(cmd, op, body) ==
    IF body.data = "absent"
        THEN CliCatches("KeyError", "'data'", op)
    ELSE IF op = "register_agent"
        THEN CliReturns(<<OkLine(<<"Agent registered with ID: ",
                                  Agent(TheOne(body.value)).id>>)>>,
                        cliRaised)
    ELSE IF op = "unregister_agent"
        THEN IF body.value # {}
                 THEN CliReturns(<<OkLine(<<"Agent ", cmd.argument,
                                           " unregistered">>)>>,
                                 cliRaised)
                 ELSE CliReturns(<<ErrorLine(<<"Agent ", cmd.argument,
                                              " not found">>)>>,
                                 cliRaised)
    ELSE IF TheOne(body.value) = <<>>
        THEN CliReturns(<<[style |-> "warn",
                           text |-> <<"No matching memories found">>]>>,
                        cliRaised)
    ELSE CliReturns(
             <<OkLine(<<"Found ", "1", " matching memories:">>),
               ErrorLine(<<"'Memory' object has no attribute 'created_at'">>)>>,
             [type |-> "AttributeError",
              message |-> "'Memory' object has no attribute 'created_at'",
              in |-> "recall command"])

\* The value the client operation returns for a body with data.
CliClientValue(op, body) ==
    IF op = "register_agent" THEN Agent(TheOne(body.value))
    ELSE IF op = "unregister_agent" THEN body.value # {}
    ELSE MemoryList(TheOne(body.value))

\* The backend answers and the command prints its result.
CliAnswered ==
    /\ cliPc = "posting"
    /\ \E body \in CliBodies(TheOne(cliCommand)) :
          LET op == cliCalls[Len(cliCalls)].op
          IN  /\ cliCalls' =
                    IF body.data = "absent" THEN cliCalls
                    ELSE [cliCalls EXCEPT
                            ![Len(cliCalls)].returned = {CliClientValue(op, body)}]
              /\ CliPrintsResult(TheOne(cliCommand), op, body)
    /\ UNCHANGED <<nonCliVars, envFile, cliEnviron, cliCommand, cliClient,
                   cliEmbeds, cliPosts>>

\* The process is over; the env file and the environment stay.
CliExit ==
    /\ cliPc = "exited"
    /\ cliPc' = "idle"
    /\ cliCommand' = {}
    /\ cliClient' = NoClient
    /\ cliCalls' = <<>>
    /\ cliEmbeds' = <<>>
    /\ cliPosts' = <<>>
    /\ cliOutput' = <<>>
    /\ cliRaised' = NotRaised
    /\ cliExit' = {}
    /\ UNCHANGED <<nonCliVars, envFile, cliEnviron>>

NextCli ==
    \/ CliUsageError
    \/ CliInvoke
    \/ CliGetClient
    \/ CliRegister
    \/ CliUnregister
    \/ CliRecall
    \/ CliEmbeddingFails
    \/ CliEmbeddingReturns
    \/ CliHttpFails
    \/ CliAnswered
    \/ CliExit

SpecCli == InitCli /\ [][NextCli]_vars

(***************************************************************************)
(* Runs of the up command.                                                 *)
(***************************************************************************)
InitUp ==
    /\ FixtureReady
    /\ RecallIdle
    /\ Quiescent("up")
    /\ UpIdle
    /\ upFiles \in UpFileSets
    /\ envFile = {}
    /\ cliEnviron \in {e \in CliEnvirons :
                          e.HASURA_URL = {} /\ e.HASURA_ADMIN_SECRET = {}}

\* The command prints its last lines and returns.
UpEnds(ran, lines) ==
    /\ upLog' = upLog \o ran
    /\ upOutput' = upOutput \o lines
    /\ upExit' = {0}
    /\ upPc' = "exited"

\* One more subprocess has run and the command goes on.
UpGoesOn(ran, lines, next) ==
    /\ upLog' = upLog \o ran
    /\ upOutput' = upOutput \o lines
    /\ upPc' = next
    /\ UNCHANGED upExit

\* up looks for docker-compose.yml, loads the environment and makes sure
\* there is an OpenAI key, asking for one if need be.
UpStart ==
    \E confirm \in BOOLEAN, api_key \in EnteredKeys :
        LET needed == ~Truthy(cliEnviron.OPENAI_API_KEY)
            setup == SetupOpenAIKey(envFile, cliEnviron, confirm, api_key)
        IN  /\ upPc = "idle"
            /\ IF ~upFiles.compose
                  THEN /\ UpEnds(<<>>, <<"Error: docker-compose.yml not found">>)
                       /\ UNCHANGED <<envFile, cliEnviron>>
                  ELSE IF needed /\ ~setup.returned
                  THEN /\ UpEnds(<<>>, <<"Error: OpenAI API key is required to start services">>)
                       /\ UNCHANGED <<envFile, cliEnviron>>
                  ELSE /\ UpGoesOn(<<>>, <<>>, "down")
                       /\ envFile' = IF needed THEN setup.file ELSE envFile
                       /\ cliEnviron' = IF needed THEN setup.environ ELSE cliEnviron
            /\ UNCHANGED <<nonUpVars, upFiles, upAttempts, upLastProbe, upReady>>

\* A subprocess outside the probe loops cannot be started: the exception
\* leaves the command and click ends the process with exit code 1.
UpSpawnFails ==
    /\ upPc \in {"down", "up", "ps", "running", "schema", "migrate", "clear",
                  "add_source", "track", "reload"}
    /\ ~(upPc = "schema" /\ ~upFiles.migration)
    /\ ~(upPc = "clear" /\ ~upFiles.metadata)
    /\ upLog' = Append(upLog, Ran(upPc, -1))
    /\ upExit' = {1}
    /\ upPc' = "exited"
    /\ UNCHANGED <<nonUpVars, envFile, cliEnviron, upFiles, upAttempts,
                   upLastProbe, upReady, upOutput>>

\* Variant of UpComposeDown: a failed down ends the run.
UpComposeDownChecked ==
    \E rc \in ReturnCodes :
        /\ upPc = "down"
        /\ IF rc # 0
              THEN UpEnds(<<Ran("down", rc)>>, <<"Error stopping services:">>)
              ELSE UpGoesOn(<<Ran("down", rc)>>, <<>>, "up")
        /\ UNCHANGED <<nonUpVars, envFile, cliEnviron, upFiles, upAttempts,
                       upLastProbe, upReady>>

\* docker compose down -v; its result is not looked at.
UpComposeDown ==
    \E rc \in ReturnCodes :
        /\ upPc = "down"
        /\ UpGoesOn(<<Ran("down", rc)>>, <<>>, "up")
        /\ UNCHANGED <<nonUpVars, envFile, cliEnviron, upFiles, upAttempts,
                       upLastProbe, upReady>>

\* docker compose up -d
UpComposeUp ==
    \E rc \in ReturnCodes :
        /\ upPc = "up"
        /\ IF rc # 0
              THEN UpEnds(<<Ran("up", rc)>>, <<"Error starting services:">>)
              ELSE UpGoesOn(<<Ran("up", rc)>>, <<>>, "ps")
        /\ UNCHANGED <<nonUpVars, envFile, cliEnviron, upFiles, upAttempts,
                       upLastProbe, upReady>>

\* docker compose ps --format json
UpComposePs ==
    \E rc \in ReturnCodes :
        /\ upPc = "ps"
        /\ IF rc # 0
              THEN UpEnds(<<Ran("ps", rc)>>, <<"Error checking service status:">>)
              ELSE UpGoesOn(<<Ran("ps", rc)>>, <<>>, "running")
        /\ UNCHANGED <<nonUpVars, envFile, cliEnviron, upFiles, upAttempts,
                       upLastProbe, upReady>>

\* docker compose ps --services --filter status=running: the services that
\* are missing from its output are reported with their logs.
UpListRunning ==
    \E running \in SUBSET ExpectedServices :
        /\ upPc = "running"
        /\ IF ExpectedServices \ running # {}
              THEN UpEnds(<<Ran("running", 0), Ran("logs", 0)>>,
                          <<"Error: The following services failed to start">>)
              ELSE UpGoesOn(<<Ran("running", 0)>>,
                            <<"Waiting for services to be ready...">>,
                            "wait_postgres")
        /\ upAttempts' = 0
        /\ UNCHANGED <<nonUpVars, envFile, cliEnviron, upFiles, upLastProbe,
                       upReady>>

\* Variant of UpProbe: a probe that raises ends the wait at once.
UpProbeRaiseEndsWait(service, here, next) ==
    \E outcome \in ProbeOutcomes :
        /\ upPc = here
        /\ upAttempts' = upAttempts + 1
        /\ upLastProbe' = outcome
        /\ IF outcome = "ok"
              THEN /\ upReady' = upReady \cup {service}
                   /\ UpGoesOn(<<>>, <<>>, next)
              ELSE IF outcome = "raise" \/ upAttempts + 1 = ProbeLimit
              THEN /\ UpEnds(<<Ran("logs", 0)>>,
                             <<"Error: " \o service \o " failed to become ready in time">>)
                   /\ UNCHANGED upReady
              ELSE /\ UpGoesOn(<<>>, <<>>, here)
                   /\ UNCHANGED upReady
        /\ UNCHANGED <<nonUpVars, envFile, cliEnviron, upFiles>>

\* One iteration of a readiness wait: the probe succeeds and the wait is
\* over, or it fails or raises and the loop sleeps; after the last failed
\* attempt the error and the service's logs are printed.
UpProbe(service, here, next) ==
    \E outcome \in ProbeOutcomes :
        /\ upPc = here
        /\ upAttempts' = upAttempts + 1
        /\ upLastProbe' = outcome
        /\ IF outcome = "ok"
              THEN /\ upReady' = upReady \cup {service}
                   /\ UpGoesOn(<<>>, <<>>, next)
              ELSE IF upAttempts + 1 = ProbeLimit
              THEN /\ UpEnds(<<Ran("logs", 0)>>,
                             <<"Error: " \o service \o " failed to become ready in time">>)
                   /\ UNCHANGED upReady
              ELSE /\ UpGoesOn(<<>>, <<>>, here)
                   /\ UNCHANGED upReady
        /\ UNCHANGED <<nonUpVars, envFile, cliEnviron, upFiles>>

\* pg_isready inside the postgres container.
UpProbePostgres ==
    /\ upPc = "wait_postgres"
    /\ UpProbe("postgres", "wait_postgres", "start_hasura")

\* The wait for Hasura starts: its loop counts from zero again.
UpStartHasuraWait ==
    /\ upPc = "start_hasura"
    /\ upAttempts' = 0
    /\ upLastProbe' = "none"
    /\ UpGoesOn(<<>>, <<>>, "wait_hasura")
    /\ UNCHANGED <<nonUpVars, envFile, cliEnviron, upFiles, upReady>>

\* curl of http://localhost:8080/healthz answering 200.
UpProbeHasura ==
    /\ upPc = "wait_hasura"
    /\ UpProbe("hasura", "wait_hasura", "schema")

\* CREATE SCHEMA IF NOT EXISTS hdb_catalog, run with check=True; without a
\* migration file only a warning is printed.
UpCreateSchema ==
    \E rc \in ReturnCodes :
        /\ upPc = "schema"
        /\ IF ~upFiles.migration
              THEN UpGoesOn(<<>>, <<"Running database migrations...",
                                   "Warning: No SQL migrations found">>, "clear")
              ELSE IF rc # 0
              THEN UpEnds(<<Ran("schema", rc)>>,
                          <<"Running database migrations...",
                            "Error during migrations:">>)
              ELSE UpGoesOn(<<Ran("schema", rc)>>,
                            <<"Running database migrations...">>, "migrate")
        /\ UNCHANGED <<nonUpVars, envFile, cliEnviron, upFiles, upAttempts,
                       upLastProbe, upReady>>

\* cat up.sql | psql
UpApplyMigrations ==
    \E rc \in ReturnCodes :
        /\ upPc = "migrate"
        /\ IF rc # 0
              THEN UpEnds(<<Ran("migrate", rc)>>, <<"Error applying SQL migrations:">>)
              ELSE UpGoesOn(<<Ran("migrate", rc)>>,
                            <<"SQL migrations applied successfully">>, "clear")
        /\ UNCHANGED <<nonUpVars, envFile, cliEnviron, upFiles, upAttempts,
                       upLastProbe, upReady>>

\* clear_metadata; without a metadata directory only a warning is printed.
UpClearMetadata ==
    \E out \in CurlOutcomes :
        /\ upPc = "clear"
        /\ IF ~upFiles.metadata
              THEN UpGoesOn(<<>>, <<"Warning: No Hasura metadata found">>, "report")
              ELSE IF out.rc # 0
              THEN UpEnds(<<Ran("clear", out.rc)>>, <<"Error clearing metadata:">>)
              ELSE UpGoesOn(<<Ran("clear", out.rc)>>, <<>>, "add_source")
        /\ UNCHANGED <<nonUpVars, envFile, cliEnviron, upFiles, upAttempts,
                       upLastProbe, upReady>>

\* pg_add_source: only what curl printed is looked at.
UpAddSource ==
    \E out \in CurlOutcomes :
        /\ upPc = "add_source"
        /\ IF AddSourceStops(out)
              THEN UpEnds(<<Ran("add_source", out.rc)>>,
                          <<IF out.stdout.kind = "text"
                                THEN "Error parsing response:"
                                ELSE "Error creating source:">>)
              ELSE UpGoesOn(<<Ran("add_source", out.rc)>>, <<>>, "track")
        /\ UNCHANGED <<nonUpVars, envFile, cliEnviron, upFiles, upAttempts,
                       upLastProbe, upReady>>

\* The bulk request that tracks the tables: only what curl printed is
\* looked at.
UpTrackTables ==
    \E out \in CurlOutcomes :
        /\ upPc = "track"
        /\ IF TrackTablesStops(out)
              THEN UpEnds(<<Ran("track", out.rc)>>,
                          <<IF out.stdout.kind = "text"
                                THEN "Error parsing response:"
                                ELSE "Error tracking tables:">>)
              ELSE UpGoesOn(<<Ran("track", out.rc)>>, <<>>, "reload")
        /\ UNCHANGED <<nonUpVars, envFile, cliEnviron, upFiles, upAttempts,
                       upLastProbe, upReady>>

\* reload_metadata
UpReloadMetadata ==
    \E out \in CurlOutcomes :
        /\ upPc = "reload"
        /\ IF out.rc # 0
              THEN UpEnds(<<Ran("reload", out.rc)>>, <<"Error reloading metadata:">>)
              ELSE UpGoesOn(<<Ran("reload", out.rc)>>,
                            <<"Hasura metadata applied successfully">>, "report")
        /\ UNCHANGED <<nonUpVars, envFile, cliEnviron, upFiles, upAttempts,
                       upLastProbe, upReady>>

\* The closing panel.
UpReport ==
    /\ upPc = "report"
    /\ UpEnds(<<>>, <<"Services started successfully">>)
    /\ UNCHANGED <<nonUpVars, envFile, cliEnviron, upFiles, upAttempts,
                   upLastProbe, upReady>>

\* The process is over; the files and the environment stay.
UpExit ==
    /\ upPc = "exited"
    /\ upPc' = "idle"
    /\ upLog' = <<>>
    /\ upAttempts' = 0
    /\ upLastProbe' = "none"
    /\ upReady' = {}
    /\ upOutput' = <<>>
    /\ upExit' = {}
    /\ UNCHANGED <<nonUpVars, envFile, cliEnviron, upFiles>>

NextUp ==
    \/ UpStart
    \/ UpSpawnFails
    \/ UpComposeDown
    \/ UpComposeUp
    \/ UpComposePs
    \/ UpListRunning
    \/ UpProbePostgres
    \/ UpStartHasuraWait
    \/ UpProbeHasura
    \/ UpCreateSchema
    \/ UpApplyMigrations
    \/ UpClearMetadata
    \/ UpAddSource
    \/ UpTrackTables
    \/ UpReloadMetadata
    \/ UpReport
    \/ UpExit

SpecUp == InitUp /\ [][NextUp]_vars

\* Every subprocess call returns and the process keeps running.
SpecUpFair == SpecUp /\ WF_vars(NextUp)

(***************************************************************************)
(* Runs of the create command.                                             *)
(***************************************************************************)
InitCreate ==
    /\ FixtureReady
    /\ RecallIdle
    /\ Quiescent("create")
    /\ createFs \in FileSystems
    /\ CreateIdle
    /\ cliEnviron = NoEnviron

\* Variant of CreateStart: an existing directory is reused
\* (mkdir with exist_ok).
CreateStartReusing ==
    \E name \in ProjectNames :
        /\ createPc = "idle"
        /\ createName' = {name}
        /\ createBefore' = createFs
        /\ IF createFs[name].kind = "file"
              THEN /\ createOutput' = <<"Error: Directory " \o name \o " already exists">>
                   /\ createExit' = {0}
                   /\ createPc' = "exited"
                   /\ UNCHANGED createFs
              ELSE /\ createOutput' = <<"Creating new project: " \o name>>
                   /\ createFs' = [createFs EXCEPT ![name] = Directory]
                   /\ createPc' = "copy"
                   /\ UNCHANGED createExit
        /\ UNCHANGED <<nonCreateVars, cliEnviron, createPrompted>>

\* create <name>: an existing target is reported and nothing else happens;
\* otherwise the project directory is made.
CreateStart ==
    \E name \in ProjectNames :
        /\ createPc = "idle"
        /\ createName' = {name}
        /\ createBefore' = createFs
        /\ IF Exists(createFs, name)
              THEN /\ createOutput' = <<"Error: Directory " \o name \o " already exists">>
                   /\ createExit' = {0}
                   /\ createPc' = "exited"
                   /\ UNCHANGED createFs
              ELSE /\ createOutput' = <<"Creating new project: " \o name>>
                   /\ createFs' = [createFs EXCEPT ![name] = Directory]
                   /\ createPc' = "copy"
                   /\ UNCHANGED createExit
        /\ UNCHANGED <<nonCreateVars, cliEnviron, createPrompted>>

\* The templates are copied one after the other; a template that is missing
\* raises, which leaves the command with exit code 1 and the copies made so
\* far.
CreateCopyTemplates ==
    \E n \in 0..CopyCount, template \in EnvExamples :
        /\ createPc = "copy"
        /\ createFs' = AfterCopies(createFs, TheOne(createName), n, template)
        /\ IF n = CopyCount
              THEN /\ createOutput' = Append(createOutput, "Project files created")
                   /\ createPc' = "configure"
                   /\ UNCHANGED createExit
              ELSE /\ createExit' = {1}
                   /\ createPc' = "exited"
                   /\ UNCHANGED createOutput
        /\ UNCHANGED <<nonCreateVars, cliEnviron, createName, createBefore,
                       createPrompted>>

\* setup_openai_key on the project's .env, then the closing panel.
CreateConfigure ==
    \E confirm \in BOOLEAN, api_key \in EnteredKeys :
        LET env_file == TheOne(createName) \o "/.env"
            setup == SetupOpenAIKey({createFs[env_file].content}, cliEnviron,
                                    confirm, api_key)
        IN  /\ createPc = "configure"
            /\ createPrompted' = TRUE
            /\ createFs' = [createFs EXCEPT ![env_file] = File(TheOne(setup.file))]
            /\ cliEnviron' = setup.environ
            /\ createOutput' = Append(createOutput, "Project Created")
            /\ createExit' = {0}
            /\ createPc' = "exited"
            /\ UNCHANGED <<nonCreateVars, createName, createBefore>>

\* The process is over; the directory stays as it is.
CreateExit ==
    /\ createPc = "exited"
    /\ createPc' = "idle"
    /\ createName' = {}
    /\ createBefore' = createFs
    /\ createPrompted' = FALSE
    /\ createOutput' = <<>>
    /\ createExit' = {}
    /\ UNCHANGED <<nonCreateVars, cliEnviron, createFs>>

NextCreate ==
    \/ CreateStart
    \/ CreateCopyTemplates
    \/ CreateConfigure
    \/ CreateExit

SpecCreate == InitCreate /\ [][NextCreate]_vars

(***************************************************************************)
(* Vocabulary of the properties.                                           *)
(***************************************************************************)
Finished == pc \in {"done", "raised"}
ProviderFailed == error \in {"EmbeddingError", "HTTPError"}
IsPrefix(s, t) == Len(s) <= Len(t) /\ \A i \in 1..Len(s) : s[i] = t[i]
Passed(opt) == opt # {}
Disabled(opt) == opt # {TRUE}
UniqueIds(rows) == Cardinality({rows[i].id : i \in 1..Len(rows)})
ThresholdsOf(requests) == [i \in 1..Len(requests) |-> requests[i].threshold]
OriginalSearches ==
    LET ForQuery(v) == v.embedding = EmbeddingOf(call.query)
    IN  SelectSeq(searchLog, ForQuery)
\* The similarity the backend gave the row that position i of the returned
\* list was built from.
ReturnedScore(i) == responses[Len(responses)][i].similarity
NoRows == <<>>

(***************************************************************************)
(* Properties of recall.                                                   *)
(***************************************************************************)

\* C1: whatever the backend answers, the list a recall call returns has at
\* most `limit` elements.
RecallReturnsAtMostLimit ==
    pc = "done" => Len(result) <= call.limit

\* C2: each record id appears at most once in the list a recall call
\* returns, also when the backend returns the same id more than once.
RecallReturnsNoDuplicateIds ==
    pc = "done" =>
        \A i, j \in 1..Len(result) : i # j => result[i].id # result[j].id

\* C3: the scores of the returned records are non-increasing by position,
\* whatever order the backend returned them in.
RecallScoresNonIncreasing ==
    pc = "done" =>
        \A i, j \in 1..Len(result) : i < j => ReturnedScore(i) >= ReturnedScore(j)

\* C4: a recall call made with adaptive_threshold false and
\* use_semantic_expansion false, whose providers do not fail, issues exactly
\* one embedding request, for the query text, and exactly one search
\* request, with that embedding and the original threshold.
RecallPlainIssuesOneEmbeddingOneSearch ==
    ( /\ Finished
      /\ ~ProviderFailed
      /\ call.kwargs.adaptive_threshold = {FALSE}
      /\ call.kwargs.use_semantic_expansion = {FALSE} )
    => /\ Len(embedLog) = 1
       /\ embedLog[1].input = call.query
       /\ Len(searchLog) = 1
       /\ searchLog[1].embedding = EmbeddingOf(call.query)
       /\ searchLog[1].threshold = call.threshold

ScenarioAdaptive ==
    <<NoRows, NoRows, <<Row("1", 62), Row("2", 61), Row("3", 60)>>>>
AdaptiveStopsAtFirstSufficientThreshold ==
    ( /\ Finished
      /\ ~ProviderFailed
      /\ call.threshold = 70
      /\ call.limit = DefaultLimit
      /\ call.kwargs = [min_results |-> {3}, adaptive_threshold |-> {TRUE},
                        use_semantic_expansion |-> {FALSE}]
      /\ IsPrefix(responses, ScenarioAdaptive) )
    => /\ pc = "done"
       /\ ThresholdsOf(searchLog) = <<70, 65, 60>>
       /\ result = MemoryList(ScenarioAdaptive[3])

\* C7: with threshold 0.7, adaptive_threshold enabled and min_results never
\* satisfied (every search answered with nothing), the searches for the
\* original query use exactly the thresholds 0.7, 0.65, ..., 0.35 in that
\* order.
RelaxationSequenceFromSeventy ==
    ( /\ Finished
      /\ ~ProviderFailed
      /\ call.threshold = 70
      /\ call.kwargs.adaptive_threshold = {TRUE}
      /\ call.kwargs.min_results \in {{1}, {3}}
      /\ \A i \in 1..Len(responses) : responses[i] = NoRows )
    => ThresholdsOf(OriginalSearches) = <<70, 65, 60, 55, 50, 45, 40, 35>>

\* C8: a recall call that does not enable use_semantic_expansion (false, or
\* left out) never calls the text-completion provider and never embeds any
\* text other than the original query, however few records it has found.
NoExpansionWhenDisabled ==
    ( /\ pc # "idle"
      /\ Disabled(call.kwargs.use_semantic_expansion) )
    => /\ completionLog = <<>>
       /\ \A i \in 1..Len(embedLog) : embedLog[i].input = call.query

\* C8 witness: a call without expansion has searched and found nothing, and
\* returns the empty list after embedding only its query.
NoExpansionWithNoResultsReached ==
    /\ pc = "done"
    /\ Disabled(call.kwargs.use_semantic_expansion)
    /\ result = <<>>
    /\ Len(embedLog) = 1
    /\ embedLog[1].input = call.query
    /\ Len(searchLog) = 1

\* C9: with both adaptive_threshold and use_semantic_expansion enabled and
\* min_results=1, when the base search at 0.7 is answered with nothing and
\* the relaxed search at 0.65 with 1 record, the completion provider is
\* called 0 times and exactly 2 search requests are made.
ScenarioCombined == <<NoRows, <<Row("1", 65)>>>>
ExpansionOnlyAfterRelaxation ==
    ( /\ Finished
      /\ ~ProviderFailed
      /\ call.threshold = 70
      /\ call.kwargs = [min_results |-> {1}, adaptive_threshold |-> {TRUE},
                        use_semantic_expansion |-> {TRUE}]
      /\ IsPrefix(responses, ScenarioCombined) )
    => /\ completionLog = <<>>
       /\ Len(searchLog) = 2

\* C10: with min_results=1 and both stages enabled, when every search for
\* the original query and for the first variation is answered with nothing
\* and the base search of the second variation with 2 records, the
\* completion provider is called exactly once and recall returns those 2
\* records.
ScenarioExpansion ==
    [k \in 1..17 |-> IF k <= 16 THEN NoRows ELSE <<Row("1", 85), Row("2", 75)>>]
ExpansionStopsAtSecondVariation ==
    ( /\ Finished
      /\ ~ProviderFailed
      /\ call.threshold = 70
      /\ call.limit >= 2
      /\ call.kwargs = [min_results |-> {1}, adaptive_threshold |-> {TRUE},
                        use_semantic_expansion |-> {TRUE}]
      /\ IsPrefix(responses, ScenarioExpansion) )
    => /\ pc = "done"
       /\ Len(completionLog) = 1
       /\ result = MemoryList(ScenarioExpansion[17])

\* C11: with expansion enabled and every search answered with nothing, each
\* paraphrase variation gets one fresh embedding of its own text, and the
\* searches with that embedding are a base search at the original threshold
\* followed by the relaxation steps 0.65, ..., 0.35.
SearchesWith(text) ==
    LET ForText(v) == v.embedding = EmbeddingOf(text)
    IN  SelectSeq(searchLog, ForText)
VariationEmbeddings == {i \in 1..Len(embedLog) : embedLog[i].input # call.query}
EachVariationRunsFullSubProcedure ==
    ( /\ Finished
      /\ ~ProviderFailed
      /\ call.threshold = 70
      /\ call.kwargs = [min_results |-> {1}, adaptive_threshold |-> {TRUE},
                        use_semantic_expansion |-> {TRUE}]
      /\ \A i \in 1..Len(responses) : responses[i] = NoRows )
    => /\ Len(completionLog) = 1
       /\ VariationEmbeddings # {}
       /\ \A i \in VariationEmbeddings :
            ThresholdsOf(SearchesWith(embedLog[i].input))
                = <<70, 65, 60, 55, 50, 45, 40, 35>>

\* C12: when the search at 0.7 returns id "1" with score 0.85 and the
\* relaxed search at 0.65 returns id "1" again with score 0.60 beside two
\* other records, the returned list holds id "1" exactly once (carrying
\* 0.85) beside the two others.
ScenarioRepeatedId ==
    << <<Row("1", 85)>>, <<Row("1", 60), Row("2", 60), Row("3", 60)>> >>
RepeatedIdKeptOnceWithBestScore ==
    ( /\ Finished
      /\ ~ProviderFailed
      /\ call.threshold = 70
      /\ call.limit = DefaultLimit
      /\ call.kwargs = [min_results |-> {3}, adaptive_threshold |-> {TRUE},
                        use_semantic_expansion |-> {FALSE}]
      /\ IsPrefix(responses, ScenarioRepeatedId) )
    => /\ pc = "done"
       /\ Cardinality({i \in 1..Len(result) : result[i].id = "1"}) = 1
       /\ {result[i].id : i \in 1..Len(result)} = {"1", "2", "3"}
       /\ result[1].id = "1"

\* C13: when the embedding provider fails on the embedding of the query,
\* recall raises that error at once, returns no list, and issues no search
\* request and no completion request.
EmbeddingFailureStep == pc = "embedding" /\ query_embedding' = <<>>
EmbeddingFailureAborts ==
    /\ [][EmbeddingFailureStep =>
            /\ pc' = "raised"
            /\ error' = "EmbeddingError"
            /\ searchLog' = <<>>
            /\ completionLog' = <<>>
            /\ result' = <<>>]_vars
    /\ [](error = "EmbeddingError" =>
            pc = "raised" /\ searchLog = <<>> /\ completionLog = <<>> /\ result = <<>>)

\* C13 witness: recall has raised the provider's error after its one
\* embedding request, with no search request issued.
EmbeddingFailureReached ==
    /\ pc = "raised"
    /\ error = "EmbeddingError"
    /\ Len(embedLog) = 1
    /\ searchLog = <<>>

\* C14: a failure of the search backend on a request propagates at once:
\* the request is not posted again, no further embedding, search or
\* completion request follows it, and no list is returned.
SearchFailureStep == pc = "searching" /\ responses' = responses
SearchFailurePropagates ==
    /\ [][SearchFailureStep =>
            /\ pc' = "raised"
            /\ error' = "HTTPError"
            /\ UNCHANGED <<embedLog, searchLog, completionLog>>
            /\ result' = <<>>]_vars
    /\ [][pc = "raised" =>
            pc' = "idle" /\ embedLog' = <<>> /\ searchLog' = <<>> /\ completionLog' = <<>>]_vars
    /\ [](pc = "raised" => result = <<>>)

\* C14 witness: the one search request has failed and recall has raised the
\* HTTP error without a result.
SearchFailureReached ==
    /\ pc = "raised"
    /\ error = "HTTPError"
    /\ Len(searchLog) = 1
    /\ responses = <<>>
    /\ result = <<>>

\* C16 as stated: every search request carries a filter equal to the
\* caller's filters, with no key added, removed or rewritten.
FilterForwardedVerbatim ==
    \A i \in 1..Len(searchLog) : searchLog[i].where = call.filters

\* C16 as amended: the where clause of every search request has the keys of
\* the caller's filters, plus agent_id when an agent_id is given; a filter
\* whose value is an operator dict is carried unchanged, a filter with a
\* plain value v is carried as {"_eq": v}, and agent_id, when no filter
\* names it, as {"_eq": agent_id}. (Nothing is said of the value under
\* agent_id when both the argument and a filter name it.)
FilterTranslatedToWhere ==
    \A i \in 1..Len(searchLog) :
        LET w == searchLog[i].where
            f == call.filters
            given == IF call.agent_id # {} THEN {"agent_id"} ELSE {}
        IN  /\ DOMAIN w = DOMAIN f \cup given
            /\ \A k \in DOMAIN f \ given :
                 w[k] = IF "scalar" \in DOMAIN f[k]
                           THEN [op |-> "_eq", value |-> f[k].scalar]
                           ELSE f[k]
            /\ \A k \in given \ DOMAIN f :
                 w[k] = [op |-> "_eq", value |-> TheOne(call.agent_id)]

\* C16 witness: a search was made for a call with an agent_id and an
\* operator filter.
FilterTranslatedReached ==
    /\ pc = "done"
    /\ call.agent_id = {"agent-1"}
    /\ "confidence" \in DOMAIN call.filters
    /\ DOMAIN searchLog[1].where = {"agent_id", "confidence"}

CollaboratorCallsBounded ==
    /\ Len(completionLog) <= 1
    /\ Len(searchLog) <= 9 * Len(embedLog)
    /\ \A i \in 1..Len(embedLog) :
          Len(SearchesWith(embedLog[i].input)) <= 1 + 8

\* C18 witness: a call with initial threshold 1.0 whose search found
\* nothing has returned.
BoundedAtThresholdOneReached ==
    /\ pc = "done"
    /\ call.threshold = 100
    /\ result = <<>>
    /\ Len(searchLog) = 1

\* C19: with min_results 0 or not given, once an answer has brought at
\* least one record the call issues no further search, embedding or
\* completion request.
FirstNonEmpty == {i \in 1..Len(responses) : responses[i] # NoRows}
NonEmptyResultAccepted ==
    ( /\ call.kwargs.min_results \in {{}, {0}}
      /\ FirstNonEmpty # {} )
    => /\ \A i \in FirstNonEmpty : Len(searchLog) <= i
       /\ Len(embedLog) = 1
       /\ completionLog = <<>>
       /\ pc = "done"

\* C19 witness: a call without min_results has returned the one record of
\* its base search.
NonEmptyResultAcceptedReached ==
    /\ pc = "done"
    /\ call.kwargs.min_results = {}
    /\ Len(responses) = 1
    /\ Len(responses[1]) = 1
    /\ Len(result) = 1
    /\ call.limit = 2

\* C15: when the backend answers get_agent with HTTP success and a body that
\* carries an errors list, get_agent raises a GraphQLError whose message is
\* the backend's error message.
GraphQLErrorsRaised ==
    ( /\ agentPc \in {"returned", "raised"}
      /\ agentBody # {}
      /\ TheOne(agentBody).errors # <<>> )
    => /\ agentPc = "raised"
       /\ agentError = [type |-> "GraphQLError",
                        message |-> TheOne(agentBody).errors[1]]

\* C20: constructing the client with no openai_api_key argument and no
\* OPENAI_API_KEY in the environment raises ValueError("OpenAI API key is
\* required") and yields no object; with a key from either source the
\* construction succeeds, the argument taking precedence.
ConstructorRequiresOpenAIKey ==
    client.state # "none" =>
        LET arg == TheOne(client.args).openai_api_key
        IN  /\ (~Truthy(arg) /\ ~Truthy(environ)) =>
                 /\ client.state = "ValueError"
                 /\ client.error = "OpenAI API key is required"
                 /\ client.openai_api_key = {}
                 /\ client.url = <<>>
            /\ Truthy(arg) =>
                 client.state = "ready" /\ client.openai_api_key = arg
            /\ (~Truthy(arg) /\ Truthy(environ)) =>
                 client.state = "ready" /\ client.openai_api_key = environ

\* C20 witness: the constructor was called without the argument in an
\* environment without the variable, and raised.
ConstructorRaisedReached ==
    /\ client.state = "ValueError"
    /\ TheOne(client.args).openai_api_key = {}
    /\ environ = {}

\* The embedding request of the remember call in progress has failed.
RememberProviderFailed ==
    /\ rememberEmbedLog # <<>>
    /\ rememberEmbedLog[1].outcome \in ProviderErrors

\* C21: if the embedding provider fails during remember, remember raises
\* that error and no insert mutation is sent to the backend: nothing is
\* stored without an embedding.
RememberEmbeddingFailureAborts ==
    /\ RememberProviderFailed =>
          /\ rememberPc = "raised"
          /\ rememberError = [type |-> "Exception",
                              message |-> rememberEmbedLog[1].outcome]
          /\ rememberPosts = <<>>
          /\ rememberResult = {}
    /\ \A i \in 1..Len(rememberPosts) :
          rememberPosts[i].variables.embedding # <<>>

\* C21 witness: the provider failed inside a remember call.
RememberEmbeddingFailureReached ==
    /\ RememberProviderFailed
    /\ rememberPc = "raised"
    /\ rememberCall # {}

\* The lines that do not start with the variable's name, in order.
RECURSIVE OtherLines(_)
OtherLines(lines) ==
    IF lines = <<>> THEN <<>>
    ELSE IF StartsWithKeyName(Head(lines)) THEN OtherLines(Tail(lines))
    ELSE <<Head(lines)>> \o OtherLines(Tail(lines))

RECURSIVE IsSubsequence(_, _)
IsSubsequence(a, b) ==
    IF a = <<>> THEN TRUE
    ELSE IF b = <<>> THEN FALSE
    ELSE IF Head(a) = Head(b) THEN IsSubsequence(Tail(a), Tail(b))
    ELSE IsSubsequence(a, Tail(b))

\* C25: whenever setup_openai_key returns True, the env file contains the
\* line OPENAI_API_KEY=<entered key>, no line starting with OPENAI_API_KEY=
\* holds another value, and every other line of the previous content is
\* still there in the same order, whatever the previous content was.
SetupLeavesKeyLine ==
    (setupPc = "returned" /\ setupResult = {TRUE}) =>
        LET lines == SplitLines(ReadEnvFile(envFile))
            before == SplitLines(TheOne(setupBefore))
            key == TheOne(setupEntered)
        IN  /\ envFile # {}
            /\ \E i \in 1..Len(lines) : lines[i] = KeyLine(key)
            /\ \A i \in 1..Len(lines) :
                  StartsWithKeyName(lines[i]) => lines[i] = KeyLine(key)
            /\ IsSubsequence(OtherLines(before), lines)

\* C23: whenever recall is called with a non-empty agent_id, the where
\* clause of every search request constrains agent_id to equal that
\* agent_id, whatever the filters are, a filter named agent_id included.
AgentIdAlwaysConstrained ==
    Truthy(call.agent_id) =>
        \A i \in 1..Len(searchLog) :
            /\ "agent_id" \in DOMAIN searchLog[i].where
            /\ searchLog[i].where["agent_id"] = Eq(TheOne(call.agent_id))

\* The text m occurs in a line of the command's output.
Printed(m) ==
    \E i \in 1..Len(cliOutput) : Has(cliOutput[i].text, m)

\* The client operation of the finished command raised.
CliClientRaised ==
    /\ cliPc = "exited"
    /\ cliCalls # <<>>
    /\ cliRaised.in = cliCalls[Len(cliCalls)].op

\* unregister_agent returned False: the agent was not found.
CliAgentNotFound ==
    /\ cliPc = "exited"
    /\ cliCalls # <<>>
    /\ cliCalls[Len(cliCalls)].op = "unregister_agent"
    /\ cliCalls[Len(cliCalls)].returned = {FALSE}

\* C22: a CLI agent command whose client operation fails ends with exit
\* code 1 and the error text in its output: agent register when the client
\* raises, agent unregister when the agent is not found ("not found").
AgentCommandFailureExitsOne ==
    /\ (CliClientRaised /\ cliCalls[Len(cliCalls)].op = "register_agent") =>
          cliExit = {1} /\ Printed(cliRaised.message)
    /\ CliAgentNotFound =>
          cliExit = {1} /\ Printed(" not found")

\* The number of times the GraphQL path occurs in a URL.
PathCount(url) == Cardinality({i \in 1..Len(url) : url[i] = "/v1/graphql"})

\* C24: the client get_client builds posts its requests to the endpoint
\* HASURA_URL names; with HASURA_URL unset the endpoint is
\* http://localhost:8080/v1/graphql, the path /v1/graphql occurring exactly
\* once in the request URL.
CliPostsToHasuraUrl ==
    \A i \in 1..Len(cliPosts) :
        LET url == cliPosts[i].url
        IN  /\ cliEnviron.HASURA_URL # {} =>
                  LET named == TheOne(cliEnviron.HASURA_URL)
                  IN  Len(url) >= Len(named) /\ SubSeq(url, 1, Len(named)) = named
            /\ cliEnviron.HASURA_URL = {} =>
                  /\ url = <<"http://localhost:8080", "/v1/graphql">>
                  /\ PathCount(url) = 1

\* The entry a well-formed option stands for: key=value as an equality
\* entry, key._op=value as {key: {"_op": value}}.
OptionRepresented(f, filters) ==
    LET e == ParseFilter(f)
    IN  e.key \in DOMAIN filters /\ filters[e.key] = e.value

\* C26: in memory recall every well-formed --filter option is represented
\* in the filters dict passed to client.recall, also when two options name
\* the same key with different operators; and if any option lacks "=",
\* client.recall is not called at all.
CliFiltersAllRepresented ==
    cliCommand # {} =>
        LET options == TheOne(cliCommand).filter
        IN  /\ \A i \in 1..Len(cliCalls) :
                  cliCalls[i].op = "recall" =>
                      \A j \in 1..Len(options) :
                          Has(options[j], "=") =>
                              OptionRepresented(options[j], cliCalls[i].args.filters)
            /\ (\E j \in 1..Len(options) : ~Has(options[j], "=")) =>
                  /\ cliCalls = <<>>
                  /\ cliEmbeds = <<>>
                  /\ cliPosts = <<>>

\* The subprocesses of the migration and metadata steps.
MigrationSteps == {"schema", "migrate", "clear", "add_source", "track", "reload"}

UpPrinted(line) == \E i \in 1..Len(upOutput) : upOutput[i] = line

\* C27: every run of up that finds docker-compose.yml and has an OpenAI key
\* issues docker compose down -v before docker compose up -d, goes on to
\* up -d whatever down returned, and issues no migration or metadata
\* request before both readiness checks have succeeded.
UpDownThenUpThenMigrations ==
    /\ upLog # <<>> => upLog[1].cmd = "down"
    /\ \A i \in 1..Len(upLog) : upLog[i].cmd = "up" => i = 2
    /\ ( /\ upPc = "exited"
         /\ upFiles.compose
         /\ Truthy(cliEnviron.OPENAI_API_KEY) )
       => /\ upLog # <<>>
          /\ upLog[1].rc \in ReturnCodes => (Len(upLog) >= 2 /\ upLog[2].cmd = "up")
    /\ \A i \in 1..Len(upLog) :
          upLog[i].cmd \in MigrationSteps => upReady = ExpectedServices

\* C27 witness: down -v failed, up -d was issued all the same, and the run
\* went as far as the metadata requests.
UpAfterFailedDownReached ==
    /\ Len(upLog) >= 2
    /\ upLog[1] = Ran("down", 1)
    /\ upLog[2] = Ran("up", 0)
    /\ \E i \in 1..Len(upLog) : upLog[i].cmd = "reload"

\* C28: up prints "Services started successfully" only in runs where
\* up -d returned 0, both services were listed as running, pg_isready
\* succeeded, /healthz returned 200 and no migration or metadata step
\* failed; every failed step ends the run without that message and without
\* any later step.
UpSuccessOnlyAfterCleanRun ==
    /\ UpPrinted("Services started successfully") =>
          /\ \E i \in 1..Len(upLog) : upLog[i] = Ran("up", 0)
          /\ \E i \in 1..Len(upLog) : upLog[i].cmd = "running"
          /\ upReady = ExpectedServices
          /\ \A i \in 1..Len(upLog) :
                upLog[i].cmd \in MigrationSteps => upLog[i].rc = 0
    /\ \A i \in 1..Len(upLog) :
          (upLog[i].cmd \in MigrationSteps \cup {"up", "ps"} /\ upLog[i].rc # 0) =>
              /\ i = Len(upLog)
              /\ upPc = "exited"
              /\ ~UpPrinted("Services started successfully")

\* The state part of C29.
UpWaitsBounded ==
    /\ upAttempts <= ProbeLimit
    /\ upPc = "wait_postgres" => "postgres" \notin upReady
    /\ upPc = "wait_hasura" => "hasura" \notin upReady
    /\ upLastProbe = "ok" => upPc \notin {"wait_postgres", "wait_hasura"}
    /\ (upLastProbe \in {"fail", "raise"} /\ upAttempts < ProbeLimit) =>
          upPc \in {"wait_postgres", "wait_hasura"}
    /\ (upLastProbe \in {"fail", "raise"} /\ upAttempts = ProbeLimit) =>
          /\ upPc = "exited"
          /\ \/ UpPrinted("Error: postgres failed to become ready in time")
             \/ UpPrinted("Error: hasura failed to become ready in time")
          /\ ~UpPrinted("Services started successfully")

\* C29: each readiness wait of up makes at most 30 probe attempts, stops at
\* the first successful probe and counts a probe that raises as a failed
\* attempt; so, every subprocess call returning, up always terminates, with
\* an error report when 30 probes of a service have failed.
UpWaitsBoundedAndTerminates ==
    /\ []UpWaitsBounded
    /\ (upPc # "idle") ~> (upPc = "exited")

\* C29 witness: the thirtieth probe of Hasura raised and the run ended with
\* the error report.
UpThirtyProbesFailedReached ==
    /\ upPc = "exited"
    /\ upAttempts = ProbeLimit
    /\ upLastProbe = "raise"
    /\ "postgres" \in upReady
    /\ UpPrinted("Error: hasura failed to become ready in time")

\* The paths the run in progress has created or changed.
CreateChanged == {p \in AllPaths : createFs[p] # createBefore[p]}

\* C30: if the target directory of create already exists, the command
\* reports an error and changes nothing: nothing is created, copied or
\* overwritten and the user is not asked for an API key; files are copied
\* only into a directory the command itself has just created.
CreateLeavesExistingTargetAlone ==
    createName # {} =>
        LET name == TheOne(createName)
        IN  /\ Exists(createBefore, name) =>
                  /\ createPc = "exited"
                  /\ createFs = createBefore
                  /\ ~createPrompted
                  /\ createOutput = <<"Error: Directory " \o name \o " already exists">>
            /\ CreateChanged # {} =>
                  /\ ~Exists(createBefore, name)
                  /\ CreateChanged \subseteq ProjectPaths(name)
                  /\ \A p \in CreateChanged : ~Exists(createBefore, p)

\* C30 witness: create was run on a directory that holds the user's .env,
\* and ended.
CreateOnExistingDirectoryReached ==
    /\ createPc = "exited"
    /\ createName = {"demo"}
    /\ createBefore["demo"] = Directory
    /\ createBefore["demo/.env"] = File(<<"old">>)

====
